---- MODULE Spec2Model ----
(***************************************************************************)
(* Model of demo_automation.py: main() reads the ticker from the named     *)
(* range TICKER, recreates the sheet "Stock Dashboard", fetches one month  *)
(* of daily prices, writes the summary block, the table and the chart, and *)
(* shows one alert.                                                        *)
(*                                                                         *)
(* Prices are integers in mills (1/1000 of a dollar), so that rounding to  *)
(* two decimals (cents) is a real conversion.  Text built by an f-string   *)
(* is a value holding the template and the formatted arguments.            *)
(***************************************************************************)
EXTENDS Integers, Sequences, FiniteSets, TLC

\* ------------------------------------------------------------- bounds
MaxClock == 2    \* instants of the wall clock the runs can observe
MaxPrice == 3    \* price levels of the series explored by SpecMetrics
MaxRows == 2     \* longest series explored by SpecMetrics

\* ------------------------------------------------------------- values
\* A cell value, a format value or a piece of text: one shape for all.
Val(kind, s, strs, nums) == [kind |-> kind, s |-> s, strs |-> strs, nums |-> nums]
None == Val("none", "", <<>>, <<>>)
Str(s) == Val("str", s, <<>>, <<>>)
Num(n) == Val("num", "", <<>>, <<n>>)
Bool(b) == Val("bool", IF b THEN "True" ELSE "False", <<>>, <<>>)
Rgb(r, g, b) == Val("rgb", "", <<>>, <<r, g, b>>)
FStr(template, strs, nums) == Val("fstr", template, strs, nums)

\* Python truthiness of the value read from the ticker cell (`not ticker`).
Falsy(v) == v.kind = "none" \/ (v.kind = "str" /\ v.s = "")

\* str.upper() on the ticker symbols of the model.
Upper(s) ==
    CASE s = "aapl" -> "AAPL"
      [] s = "msft" -> "MSFT"
      [] OTHER -> s

\* Round n/d (d > 0) to the nearest integer, ties to the even one.
RoundHalfEven(n, d) ==
    LET q == n \div d
        r == n % d
    IN  IF 2 * r < d THEN q
        ELSE IF 2 * r > d THEN q + 1
        ELSE IF q % 2 = 0 THEN q ELSE q + 1

\* A price in mills rounded to two decimals of a dollar: the result in cents.
Round2(x) == RoundHalfEven(x, 10)

\* ------------------------------------------------------------- sheets
DashboardName == "Stock Dashboard"
EmptyFcn == [a \in {} |-> None]
EmptySheet(n) == [name |-> n, values |-> EmptyFcn, formats |-> EmptyFcn, pictures |-> <<>>]

SetValue(sh, addr, v) ==
    [sh EXCEPT !.values =
        [a \in (DOMAIN sh.values) \cup {addr} |-> IF a = addr THEN v ELSE sh.values[a]]]

SetFormat(sh, addr, prop, v) ==
    [sh EXCEPT !.formats =
        [k \in (DOMAIN sh.formats) \cup {<<addr, prop>>} |->
            IF k = <<addr, prop>> THEN v ELSE sh.formats[k]]]

\* Set one format property on every address of a set.
SetFormats(sh, addrs, prop, v) ==
    [sh EXCEPT !.formats =
        [k \in (DOMAIN sh.formats) \cup {<<a, prop>> : a \in addrs} |->
            IF k[2] = prop /\ k[1] \in addrs THEN v ELSE sh.formats[k]]]

CellValue(sh, addr) == IF addr \in DOMAIN sh.values THEN sh.values[addr] ELSE None

SheetNames(ss) == [i \in 1..Len(ss) |-> ss[i].name]
HasSheet(ss, n) == \E i \in 1..Len(ss) : ss[i].name = n
SheetIdx(ss, n) == CHOOSE i \in 1..Len(ss) : ss[i].name = n
Sheet(ss, n) == ss[SheetIdx(ss, n)]

RemoveAt(ss, i) == [j \in 1..(Len(ss) - 1) |-> IF j < i THEN ss[j] ELSE ss[j + 1]]
InsertAfter(ss, i, sh) ==
    [j \in 1..(Len(ss) + 1) |-> IF j <= i THEN ss[j] ELSE IF j = i + 1 THEN sh ELSE ss[j - 1]]

Merge(f, g) == [a \in (DOMAIN f) \cup (DOMAIN g) |-> IF a \in DOMAIN g THEN g[a] ELSE f[a]]

\* ------------------------------------------------------------- series
\* One daily record of the fetched history; Date is a day number.
Row(d, o, h, l, c, v) == [Date |-> d, Open |-> o, High |-> h, Low |-> l, Close |-> c, Volume |-> v]

High(h) == [i \in 1..Len(h) |-> h[i].High]
Low(h) == [i \in 1..Len(h) |-> h[i].Low]
Close(h) == [i \in 1..Len(h) |-> h[i].Close]
Volume(h) == [i \in 1..Len(h) |-> h[i].Volume]

SeqMax(s) == CHOOSE x \in {s[i] : i \in 1..Len(s)} : \A j \in 1..Len(s) : s[j] <= x
SeqMin(s) == CHOOSE x \in {s[i] : i \in 1..Len(s)} : \A j \in 1..Len(s) : x <= s[j]
\* idxmax / idxmin: the first position holding the extreme value.
IdxMax(s) == CHOOSE i \in 1..Len(s) : s[i] = SeqMax(s) /\ \A j \in 1..(i - 1) : s[j] # SeqMax(s)
IdxMin(s) == CHOOSE i \in 1..Len(s) : s[i] = SeqMin(s) /\ \A j \in 1..(i - 1) : s[j] # SeqMin(s)

RECURSIVE SeqSum(_)
SeqSum(s) == IF s = <<>> THEN 0 ELSE s[1] + SeqSum(Tail(s))

\* strftime("%Y-%m-%d") of a day.
Strftime(d) == FStr("%Y-%m-%d", <<>>, <<d>>)
\* A float rounded to two decimals (cents) and an integer.
Num2(c) == Val("num2", "", <<>>, <<c>>)
Whole(n) == Val("int", "", <<>>, <<n>>)

\* ------------------------------------------------------------- metrics
CurrentPrice(h) == h[Len(h)].Close
PriceChange(h) == h[Len(h)].Close - h[1].Close
\* Variant: the change is divided by the last close.
PriceChangePctOfLast(chg, h) == <<chg * 100, h[Len(h)].Close>>
\* (price_change / first close) * 100, kept exact as <<numerator, denominator>>.
PriceChangePct(chg, h) == <<chg * 100, h[1].Close>>
\* f"${price_change:.2f} ({price_change_pct:+.2f}%)": cents and hundredths of a percent.
ChangeText(chg, pct) ==
    FStr("${:.2f} ({:+.2f}%)", <<>>, <<Round2(chg), RoundHalfEven(pct[1] * 100, pct[2])>>)
\* Variant: green only for a strictly positive change.
ChangeColorStrict(chg) == IF chg > 0 THEN Rgb(0, 128, 0) ELSE Rgb(255, 0, 0)
ChangeColor(chg) == IF chg >= 0 THEN Rgb(0, 128, 0) ELSE Rgb(255, 0, 0)
\* Variant: the maximum is taken over the Close column.
WindowHighOfClose(h) == SeqMax(Close(h))
WindowHigh(h) == SeqMax(High(h))
WindowLow(h) == SeqMin(Low(h))
AvgVolumeText(h) == FStr("{:,.0f}", <<>>, <<RoundHalfEven(SeqSum(Volume(h)), Len(h))>>)

\* dict.get(key, default) on a dict kept as a set of <<key, value>> pairs.
DictGet(d, k, default) ==
    IF \E p \in d : p[1] = k THEN (CHOOSE p \in d : p[1] = k)[2] ELSE default

\* ------------------------------------------------------------- report
HeaderTitle(t) == FStr("Stock Analysis Dashboard - {}", <<Upper(t.s)>>, <<>>)

WriteHeader(sh, t, i) ==
    LET s1 == SetValue(sh, <<"A", 1>>, HeaderTitle(t))
        s2 == SetFormat(s1, <<"A", 1>>, "font.size", Whole(18))
        s3 == SetFormat(s2, <<"A", 1>>, "font.bold", Bool(TRUE))
        s4 == SetFormat(s3, <<"A", 1>>, "font.color", Rgb(0, 102, 204))
        s5 == SetValue(s4, <<"A", 3>>, Str("Ticker:"))
        s6 == SetValue(s5, <<"B", 3>>, Str(Upper(t.s)))
        s7 == SetFormat(s6, <<"B", 3>>, "font.bold", Bool(TRUE))
        s8 == SetFormat(s7, <<"B", 3>>, "font.size", Whole(14))
        s9 == SetValue(s8, <<"A", 4>>, Str("Company:"))
        s10 == SetValue(s9, <<"B", 4>>, Str(DictGet(i, "longName", "N/A")))
        s11 == SetValue(s10, <<"A", 5>>, Str("Sector:"))
    IN  SetValue(s11, <<"B", 5>>, Str(DictGet(i, "sector", "N/A")))

WritePrice(sh, cp) ==
    LET s1 == SetValue(sh, <<"A", 6>>, Str("Current Price:"))
        s2 == SetValue(s1, <<"B", 6>>, Num(cp))
        s3 == SetFormat(s2, <<"B", 6>>, "number_format", Str("$#,##0.00"))
        s4 == SetFormat(s3, <<"B", 6>>, "font.size", Whole(12))
    IN  SetFormat(s4, <<"B", 6>>, "font.bold", Bool(TRUE))

WriteChange(sh, chg, txt) ==
    LET s1 == SetValue(sh, <<"A", 7>>, Str("30-Day Change:"))
        s2 == SetValue(s1, <<"B", 7>>, txt)
        s3 == SetFormat(s2, <<"B", 7>>, "font.color", ChangeColor(chg))
    IN  SetFormat(s3, <<"B", 7>>, "font.bold", Bool(TRUE))

WriteHighLow(sh, h) ==
    LET s1 == SetValue(sh, <<"A", 8>>, Str("30-Day High:"))
        s2 == SetValue(s1, <<"B", 8>>, Num(WindowHigh(h)))
        s3 == SetFormat(s2, <<"B", 8>>, "number_format", Str("$#,##0.00"))
        s4 == SetValue(s3, <<"A", 9>>, Str("30-Day Low:"))
        s5 == SetValue(s4, <<"B", 9>>, Num(WindowLow(h)))
        s6 == SetFormat(s5, <<"B", 9>>, "number_format", Str("$#,##0.00"))
        s7 == SetValue(s6, <<"A", 10>>, Str("Avg Volume:"))
    IN  SetValue(s7, <<"B", 10>>, AvgVolumeText(h))

\* The table written at D4: the header row, then one row per record.
TableCols == <<"D", "E", "F", "G", "H", "I">>
TableHeader == <<"Date", "Open", "High", "Low", "Close", "Volume">>
ColIdx(c) == CHOOSE k \in 1..Len(TableCols) : TableCols[k] = c
TableRange(n) == {<<TableCols[k], r>> : k \in 1..Len(TableCols), r \in 4..(4 + n)}
DisplayCell(row, k) ==
    CASE k = 1 -> Strftime(row.Date)
      [] k = 2 -> Num2(Round2(row.Open))
      [] k = 3 -> Num2(Round2(row.High))
      [] k = 4 -> Num2(Round2(row.Low))
      [] k = 5 -> Num2(Round2(row.Close))
      [] OTHER -> Whole(row.Volume)
DfDisplay(h) ==
    [a \in TableRange(Len(h)) |->
        IF a[2] = 4 THEN Str(TableHeader[ColIdx(a[1])]) ELSE DisplayCell(h[a[2] - 4], ColIdx(a[1]))]

WriteTable(sh, h) ==
    LET s1 == SetValue(sh, <<"D", 3>>, Str("Historical Data (Last 30 Days)"))
        s2 == SetFormat(s1, <<"D", 3>>, "font.bold", Bool(TRUE))
        s3 == SetFormat(s2, <<"D", 3>>, "font.size", Whole(12))
        s4 == [s3 EXCEPT !.values = Merge(s3.values, DfDisplay(h))]
        s5 == SetFormats(s4, TableRange(Len(h)), "Borders.Weight", Whole(2))
        s6 == SetFormats(s5, TableRange(0), "color", Rgb(0, 102, 204))
        s7 == SetFormats(s6, TableRange(0), "font.color", Rgb(255, 255, 255))
        s8 == SetFormats(s7, TableRange(0), "font.bold", Bool(TRUE))
    IN  SetFormats(s8, {<<c, 0>> : c \in {"A", "B", "C", "D", "E", "F", "G", "H", "I"}},
                   "autofit", Bool(TRUE))

\* The two-panel figure: price line with max/min markers, volume bars.
ChartFigure(t, h) ==
    [title |-> FStr("{} - 30 Day Price Chart", <<Upper(t.s)>>, <<>>),
     dates |-> [i \in 1..Len(h) |-> h[i].Date],
     close |-> Close(h),
     maxMark |-> <<h[IdxMax(Close(h))].Date, SeqMax(Close(h))>>,
     minMark |-> <<h[IdxMin(Close(h))].Date, SeqMin(Close(h))>>,
     colors |-> [i \in 1..Len(h) |-> IF h[i].Close >= h[i].Open THEN "green" ELSE "red"],
     volume |-> Volume(h)]

ChartPicture(t, h) ==
    [name |-> "stock_chart", fig |-> ChartFigure(t, h), anchor |-> <<"K", 4>>,
     width |-> 600, height |-> 450]

\* pictures.add(..., update=True): a picture of the same name is replaced in place.
PicturesAdd(sh, pic) ==
    [sh EXCEPT !.pictures =
        IF \E i \in 1..Len(sh.pictures) : sh.pictures[i].name = pic.name
        THEN [i \in 1..Len(sh.pictures) |->
                IF sh.pictures[i].name = pic.name THEN pic ELSE sh.pictures[i]]
        ELSE Append(sh.pictures, pic)]

WriteTimestamp(sh, clk) ==
    LET s1 == SetValue(sh, <<"A", 12>>, FStr("Last updated: %Y-%m-%d %H:%M:%S", <<>>, <<clk>>))
        s2 == SetFormat(s1, <<"A", 12>>, "font.size", Whole(9))
    IN  SetFormat(s2, <<"A", 12>>, "font.color", Rgb(128, 128, 128))

\* ------------------------------------------------------------- workbook
InputSheetName == "Sheet1"
TickerCell == <<"B", 2>>
\* The sheet holding the ticker cell, with value v typed into it.
InputSheet(v) ==
    IF v = None THEN EmptySheet(InputSheetName)
    ELSE SetValue(EmptySheet(InputSheetName), TickerCell, v)

\* What the user can leave in the ticker cell: nothing, an empty text, a symbol in
\* lower or in upper case.
CellInputs == {None, Str(""), Str("aapl"), Str("MSFT")}

\* The named range TICKER, as wb.names holds it.
TickerName == [name |-> "TICKER", sheet |-> InputSheetName, addr |-> TickerCell]
NameResolves(nms, ss, n) == \E r \in nms : r.name = n /\ HasSheet(ss, r.sheet)
\* wb.names[n].refers_to_range.value
NamedValue(nms, ss, n) ==
    LET r == CHOOSE x \in nms : x.name = n /\ HasSheet(ss, x.sheet)
    IN  CellValue(Sheet(ss, r.sheet), r.addr)

\* A dashboard left in the workbook before the first modelled run: a title, a
\* table row below any table the model writes, a note and a chart picture.
OldDashboard ==
    LET s1 == SetValue(EmptySheet(DashboardName), <<"A", 1>>, Str("old title"))
        s2 == SetValue(s1, <<"D", 9>>, Str("old row"))
        s3 == SetFormat(s2, <<"B", 7>>, "font.italic", Bool(TRUE))
    IN  [s3 EXCEPT !.pictures = <<ChartPicture(Str("old"), <<Row(1, 1, 1, 1, 1, 1)>>)>>]

StartWorkbooks(v) ==
    LET S1 == InputSheet(v)
        S2 == EmptySheet("Sheet2")
        D == OldDashboard
    IN  {<<S1>>, <<S1, S2>>, <<S1, D>>, <<S1, D, S2>>, <<D, S1, S2>>, <<S1, S2, D>>}

\* wb.sheets[n].delete() inside try/except-pass: nothing happens when n is absent.
SheetsDelete(ss, n) == IF HasSheet(ss, n) THEN RemoveAt(ss, SheetIdx(ss, n)) ELSE ss
\* The sheets the host may activate once sheet n is gone.
ActiveAfterDelete(ss, act, n) ==
    IF act = n /\ HasSheet(ss, n)
    THEN {SheetsDelete(ss, n)[i].name : i \in 1..Len(SheetsDelete(ss, n))}
    ELSE {act}
\* Variant: the sheet is added after the last sheet.
SheetsAddAtEnd(ss, n) == InsertAfter(ss, Len(ss), EmptySheet(n))
\* wb.sheets.add(n, after=wb.sheets[0])
SheetsAdd(ss, n) == InsertAfter(ss, 1, EmptySheet(n))
ReplaceSheet(ss, n, sh) == [i \in 1..Len(ss) |-> IF ss[i].name = n THEN sh ELSE ss[i]]

\* ------------------------------------------------------------- provider
\* The series the provider answers with in the workflow specification.
ProviderMenu ==
    {<<>>,
     <<Row(1, 150120, 151004, 149996, 150888, 3)>>,
     <<Row(1, 150500, 151200, 150100, 151000, 4),
       Row(2, 151000, 151004, 149000, 149500, 7),
       Row(3, 149500, 150800, 149200, 150412, 2)>>}

\* The series explored by SpecMetrics: every series of 1..MaxRows records over
\* MaxPrice price levels with Low <= Close <= High, in chronological order.
Prices == {4 * p : p \in 1..MaxPrice}
RowShapes ==
    {Row(0, t[1], t[2], t[1], t[3], 1) :
        t \in {u \in Prices \X Prices \X Prices : u[1] <= u[3] /\ u[3] <= u[2]}}
AllSeries ==
    UNION {{[i \in 1..n |-> [f[i] EXCEPT !.Date = i]] : f \in [1..n -> RowShapes]} : n \in 1..MaxRows}

\* What stock.info gives: it raises, or it is a dict that may lack keys.
InfoDicts == {{<<"longName", "Apple Inc.">>, <<"sector", "Technology">>}, {}}
InfoFallback(t) == {<<"longName", Upper(t.s)>>, <<"sector", "N/A">>}

\* ------------------------------------------------------------- state
VARIABLES
    sheets,            \* the workbook: the sequence of its sheets
    active,            \* name of the active sheet
    names,             \* the workbook's defined names
    now,               \* the wall clock
    pc,                \* position of main(); "idle" and "done" are outside it
    alerts,            \* the alerts shown by the current run, in order
    ticker, hist, info,                    \* locals of main()
    current_price, price_change, price_change_pct, change_text,
    pre,               \* the workbook as it was when main() was called
    prev,              \* the result of the run before, when it succeeded
    fetched,           \* whether this run asked the provider for the history
    infoRaised         \* whether stock.info raised in this run

vars == <<sheets, active, names, now, pc, alerts, ticker, hist, info, current_price,
          price_change, price_change_pct, change_text, pre, prev, fetched, infoRaised>>

locals == <<ticker, hist, info, current_price, price_change, price_change_pct, change_text>>
book == <<sheets, active, names>>
history == <<pre, prev, fetched, infoRaised>>

Snapshot(ss, act, nms) == [sheets |-> ss, active |-> act, names |-> nms]
Alert(title, body) == [title |-> title, body |-> body]
NoPrev == [valid |-> FALSE, ticker |-> None, hist |-> <<>>, info |-> {},
           sheet |-> EmptySheet(DashboardName)]
Succeeded == alerts # <<>> /\ alerts[Len(alerts)].title = "Success"

LocalsUnset ==
    /\ ticker = None /\ hist = <<>> /\ info = {}
    /\ current_price = 0 /\ price_change = 0 /\ price_change_pct = <<0, 1>>
    /\ change_text = None

Init ==
    /\ \E v \in CellInputs : sheets \in StartWorkbooks(v)
    /\ active \in {sheets[i].name : i \in 1..Len(sheets)}
    /\ names \in {{}, {TickerName}}
    /\ now = 1
    /\ pc = "idle"
    /\ alerts = <<>>
    /\ LocalsUnset
    /\ pre = Snapshot(sheets, active, names)
    /\ prev = NoPrev
    /\ fetched = FALSE
    /\ infoRaised = FALSE

\* ------------------------------------------------------------- main()
\* The macro is invoked: wb = xw.Book.caller().
CallMain ==
    /\ pc \in {"idle", "done"}
    /\ pc' = "read"
    /\ alerts' = <<>>
    /\ ticker' = None /\ hist' = <<>> /\ info' = {}
    /\ current_price' = 0 /\ price_change' = 0 /\ price_change_pct' = <<0, 1>>
    /\ change_text' = None
    /\ pre' = Snapshot(sheets, active, names)
    /\ prev' = IF Succeeded /\ HasSheet(sheets, DashboardName)
               THEN [valid |-> TRUE, ticker |-> ticker, hist |-> hist, info |-> info,
                     sheet |-> Sheet(sheets, DashboardName)]
               ELSE NoPrev
    /\ fetched' = FALSE
    /\ infoRaised' = FALSE
    /\ UNCHANGED <<book, now>>

\* Variant: the dashboard is deleted before the ticker is read.
ReadTickerAfterDelete ==
    /\ pc = "read"
    /\ sheets' = SheetsDelete(sheets, DashboardName)
    /\ active' \in ActiveAfterDelete(sheets, active, DashboardName)
    /\ IF NameResolves(names, sheets, "TICKER")
       THEN /\ ticker' = NamedValue(names, sheets, "TICKER")
            /\ pc' = IF Falsy(ticker') THEN "alert_missing" ELSE "delete"
       ELSE /\ ticker' = ticker
            /\ pc' = "alert_setup"
    /\ UNCHANGED <<names, now, alerts, hist, info, current_price, price_change,
                   price_change_pct, change_text, history>>

\* ticker = wb.names["TICKER"].refers_to_range.value, inside try / bare except.
ReadTicker ==
    /\ pc = "read"
    /\ IF NameResolves(names, sheets, "TICKER")
       THEN /\ ticker' = NamedValue(names, sheets, "TICKER")
            /\ pc' = IF Falsy(ticker') THEN "alert_missing" ELSE "delete"
       ELSE /\ ticker' = ticker
            /\ pc' = "alert_setup"
    /\ UNCHANGED <<book, now, alerts, hist, info, current_price, price_change,
                   price_change_pct, change_text, history>>

\* Variant: the return after the alert is missing.
AlertMissingTickerNoReturn ==
    /\ pc = "alert_missing"
    /\ alerts' = Append(alerts, Alert("Missing Ticker",
                        Str("Please enter a ticker symbol in the TICKER range!")))
    /\ pc' = "delete"
    /\ UNCHANGED <<book, now, locals, history>>

AlertMissingTicker ==
    /\ pc = "alert_missing"
    /\ alerts' = Append(alerts, Alert("Missing Ticker",
                        Str("Please enter a ticker symbol in the TICKER range!")))
    /\ pc' = "done"
    /\ UNCHANGED <<book, now, locals, history>>

\* Variant: the except branch shows the other alert.
AlertSetupRequiredWrongTitle ==
    /\ pc = "alert_setup"
    /\ alerts' = Append(alerts, Alert("Missing Ticker",
                        Str("Please enter a ticker symbol in the TICKER range!")))
    /\ pc' = "done"
    /\ UNCHANGED <<book, now, locals, history>>

AlertSetupRequired ==
    /\ pc = "alert_setup"
    /\ alerts' = Append(alerts, Alert("Setup Required", Str("Named range 'TICKER' not found!")))
    /\ pc' = "done"
    /\ UNCHANGED <<book, now, locals, history>>

\* Variant: the old dashboard is not deleted.
DeleteDashboardSkipped ==
    /\ pc = "delete"
    /\ pc' = "add"
    /\ UNCHANGED <<book, now, alerts, locals, history>>

\* try: wb.sheets[dashboard_name].delete() except: pass
DeleteDashboard ==
    /\ pc = "delete"
    /\ sheets' = SheetsDelete(sheets, DashboardName)
    /\ active' \in ActiveAfterDelete(sheets, active, DashboardName)
    /\ pc' = "add"
    /\ UNCHANGED <<names, now, alerts, locals, history>>

\* sheet = wb.sheets.add(dashboard_name, after=wb.sheets[0]); sheet.activate()
AddDashboard ==
    /\ pc = "add"
    /\ sheets' = SheetsAdd(sheets, DashboardName)
    /\ active' = DashboardName
    /\ pc' = "fetch"
    /\ UNCHANGED <<names, now, alerts, locals, history>>

\* hist = stock.history(period="1mo"), the provider answering with a series of S.
Fetch(S) ==
    /\ pc = "fetch"
    /\ \E h \in S :
        /\ hist' = h
        /\ pc' = IF h = <<>> THEN "alert_invalid" ELSE "info"
    /\ fetched' = TRUE
    /\ UNCHANGED <<book, now, alerts, ticker, info, current_price, price_change,
                   price_change_pct, change_text, pre, prev, infoRaised>>

FetchHistory == Fetch(ProviderMenu)
FetchAnyHistory == Fetch(AllSeries)

AlertInvalidTicker ==
    /\ pc = "alert_invalid"
    /\ alerts' = Append(alerts, Alert("Invalid Ticker",
                        FStr("No data found for ticker: {}", <<Upper(ticker.s)>>, <<>>)))
    /\ pc' = "rollback"
    /\ UNCHANGED <<book, now, locals, history>>

\* sheet.delete(); return
DeleteNewSheet ==
    /\ pc = "rollback"
    /\ sheets' = SheetsDelete(sheets, DashboardName)
    /\ active' \in ActiveAfterDelete(sheets, active, DashboardName)
    /\ pc' = "done"
    /\ UNCHANGED <<names, now, alerts, locals, history>>

\* Variant: the exception of stock.info is not caught and ends the run.
GetInfoUncaught ==
    /\ pc = "info"
    /\ \/ \E d \in InfoDicts : info' = d /\ infoRaised' = FALSE /\ pc' = "header"
       \/ info' = info /\ infoRaised' = TRUE /\ pc' = "done"
    /\ UNCHANGED <<book, now, alerts, ticker, hist, current_price, price_change,
                   price_change_pct, change_text, pre, prev, fetched>>

\* try: info = stock.info except: info = {"longName": ticker.upper(), "sector": "N/A"}
GetInfo ==
    /\ pc = "info"
    /\ \/ \E d \in InfoDicts : info' = d /\ infoRaised' = FALSE
       \/ info' = InfoFallback(ticker) /\ infoRaised' = TRUE
    /\ pc' = "header"
    /\ UNCHANGED <<book, now, alerts, ticker, hist, current_price, price_change,
                   price_change_pct, change_text, pre, prev, fetched>>

\* Lines 56-72: the title and the ticker, company and sector cells.
HeaderSection ==
    /\ pc = "header"
    /\ sheets' = ReplaceSheet(sheets, DashboardName,
                              WriteHeader(Sheet(sheets, DashboardName), ticker, info))
    /\ pc' = "metrics"
    /\ UNCHANGED <<active, names, now, alerts, locals, history>>

\* Lines 74-100: current price, change, high, low, average volume.
CalculateMetrics ==
    /\ pc = "metrics"
    /\ current_price' = CurrentPrice(hist)
    /\ price_change' = PriceChange(hist)
    /\ price_change_pct' = PriceChangePct(price_change', hist)
    /\ change_text' = ChangeText(price_change', price_change_pct')
    /\ sheets' = ReplaceSheet(sheets, DashboardName,
            WriteHighLow(WriteChange(WritePrice(Sheet(sheets, DashboardName), current_price'),
                                     price_change', change_text'), hist))
    /\ pc' = "table"
    /\ UNCHANGED <<active, names, now, alerts, ticker, hist, info, history>>

\* Lines 102-126: the historical data table, its formats, the column autofit.
HistoricalTable ==
    /\ pc = "table"
    /\ sheets' = ReplaceSheet(sheets, DashboardName, WriteTable(Sheet(sheets, DashboardName), hist))
    /\ pc' = "chart"
    /\ UNCHANGED <<active, names, now, alerts, locals, history>>

\* Lines 128-177: the figure is drawn and inserted as picture "stock_chart".
InsertChart ==
    /\ pc = "chart"
    /\ sheets' = ReplaceSheet(sheets, DashboardName,
                              PicturesAdd(Sheet(sheets, DashboardName), ChartPicture(ticker, hist)))
    /\ pc' = "timestamp"
    /\ UNCHANGED <<active, names, now, alerts, locals, history>>

\* Lines 179-184.
AddTimestamp ==
    /\ pc = "timestamp"
    /\ sheets' = ReplaceSheet(sheets, DashboardName,
                              WriteTimestamp(Sheet(sheets, DashboardName), now))
    /\ pc' = "success"
    /\ UNCHANGED <<active, names, now, alerts, locals, history>>

SuccessBody(t, cp, txt) ==
    FStr("Dashboard created successfully for {}! Current Price: ${:.2f} 30-Day Change: {}",
         <<Upper(t.s), txt.s>>, <<Round2(cp)>> \o txt.nums)

\* Lines 186-190.
SuccessMessage ==
    /\ pc = "success"
    /\ alerts' = Append(alerts, Alert("Success", SuccessBody(ticker, current_price, change_text)))
    /\ pc' = "done"
    /\ UNCHANGED <<book, now, locals, history>>

\* ------------------------------------------------------------- environment
\* Between runs the user edits the ticker cell, defines or deletes the name,
\* and time passes.  main() blocks the host, so none of it happens inside a run.
EditTicker ==
    /\ pc \in {"idle", "done"}
    /\ \E v \in CellInputs :
        /\ v # CellValue(Sheet(sheets, InputSheetName), TickerCell)
        /\ sheets' = ReplaceSheet(sheets, InputSheetName, InputSheet(v))
    /\ pc' = "idle"
    /\ UNCHANGED <<active, names, now, alerts, locals, history>>

DefineName ==
    /\ pc \in {"idle", "done"}
    /\ names = {}
    /\ names' = {TickerName}
    /\ pc' = "idle"
    /\ UNCHANGED <<sheets, active, now, alerts, locals, history>>

DeleteName ==
    /\ pc \in {"idle", "done"}
    /\ names # {}
    /\ names' = {}
    /\ pc' = "idle"
    /\ UNCHANGED <<sheets, active, now, alerts, locals, history>>

Tick ==
    /\ pc \in {"idle", "done"}
    /\ now < MaxClock
    /\ now' = now + 1
    /\ pc' = "idle"
    /\ UNCHANGED <<book, alerts, locals, history>>

Next ==
    \/ CallMain
    \/ ReadTicker
    \/ AlertMissingTicker
    \/ AlertSetupRequired
    \/ DeleteDashboard
    \/ AddDashboard
    \/ FetchHistory
    \/ AlertInvalidTicker
    \/ DeleteNewSheet
    \/ GetInfo
    \/ HeaderSection
    \/ CalculateMetrics
    \/ HistoricalTable
    \/ InsertChart
    \/ AddTimestamp
    \/ SuccessMessage
    \/ EditTicker
    \/ DefineName
    \/ DeleteName
    \/ Tick

Spec == Init /\ [][Next]_vars

\* One run of main() on a valid ticker, over every series of AllSeries.
InitMetrics ==
    /\ sheets = <<InputSheet(Str("aapl")), OldDashboard, EmptySheet("Sheet2")>>
    /\ active = InputSheetName
    /\ names = {TickerName}
    /\ now = 1
    /\ pc = "read"
    /\ alerts = <<>>
    /\ LocalsUnset
    /\ pre = Snapshot(sheets, active, names)
    /\ prev = NoPrev
    /\ fetched = FALSE
    /\ infoRaised = FALSE

NextMetrics ==
    \/ ReadTicker
    \/ DeleteDashboard
    \/ AddDashboard
    \/ FetchAnyHistory
    \/ GetInfo
    \/ HeaderSection
    \/ CalculateMetrics
    \/ HistoricalTable
    \/ InsertChart
    \/ AddTimestamp
    \/ SuccessMessage

SpecMetrics == InitMetrics /\ [][NextMetrics]_vars

\* ------------------------------------------------------------- properties
InRun == pc \notin {"idle", "done"}
Returned == pc = "done"
Dash == Sheet(sheets, DashboardName)
DashIdxs(ss) == {i \in 1..Len(ss) : ss[i].name = DashboardName}
ShownTitles == {alerts[i].title : i \in 1..Len(alerts)}
\* The ticker input as main() finds it: the name resolves and the cell is not empty.
TickerGiven ==
    NameResolves(names, sheets, "TICKER") /\ ~Falsy(NamedValue(names, sheets, "TICKER"))
AfterMetrics == pc \in {"table", "chart", "timestamp", "success", "done"}
Green == Rgb(0, 128, 0)
Red == Rgb(255, 0, 0)
\* A sheet without the value of one cell.
MaskValue(sh, addr) ==
    [sh EXCEPT !.values = [a \in (DOMAIN sh.values) \ {addr} |-> sh.values[a]]]
\* The report main() builds on an empty sheet from its inputs.
Report(t, h, i, clk) ==
    LET s1 == WriteHeader(EmptySheet(DashboardName), t, i)
        s2 == WritePrice(s1, CurrentPrice(h))
        s3 == WriteChange(s2, PriceChange(h),
                          ChangeText(PriceChange(h), PriceChangePct(PriceChange(h), h)))
        s4 == WriteHighLow(s3, h)
        s5 == WriteTable(s4, h)
        s6 == PicturesAdd(s5, ChartPicture(t, h))
    IN  WriteTimestamp(s6, clk)

\* C1 (as stated): a run whose fetch returns no rows leaves the sheets and their
\* contents as they were before the run.
C1_ZeroRowsRestoresWorkbook ==
    (Returned /\ fetched /\ hist = <<>>) => sheets = pre.sheets

\* C2: while the name TICKER is undefined or its cell is empty, a run never gets
\* past the read and its alert: no sheet is added, the provider is not asked,
\* and the alert, once shown, is the only one and the run has returned.
C2_InputErrorAborts ==
    (pc # "idle" /\ ~TickerGiven) =>
        /\ pc \in {"read", "alert_missing", "alert_setup", "done"}
        /\ SheetNames(sheets) = SheetNames(pre.sheets)
        /\ ~fetched
        /\ (alerts # <<>> => Returned /\ Len(alerts) = 1)
        /\ (Returned => ShownTitles \subseteq {"Missing Ticker", "Setup Required"} /\ alerts # <<>>)
C2_Witness ==
    /\ Returned /\ NameResolves(names, sheets, "TICKER") /\ ~TickerGiven
    /\ ShownTitles = {"Missing Ticker"}
    /\ ~HasSheet(sheets, DashboardName)

\* C3 (as stated): never two sheets named Stock Dashboard nor two pictures named
\* stock_chart, and after two successive successful runs on the same ticker and
\* the same provider data the dashboard equals the one the first run left.
SameInputsAsPrev == prev.valid /\ prev.ticker = ticker /\ prev.hist = hist /\ prev.info = info
NoDuplicates ==
    /\ Cardinality(DashIdxs(sheets)) <= 1
    /\ \A i \in DashIdxs(sheets) :
        Cardinality({k \in 1..Len(sheets[i].pictures) :
                        sheets[i].pictures[k].name = "stock_chart"}) <= 1
C3_RerunIdentical ==
    /\ NoDuplicates
    /\ (Returned /\ Succeeded /\ SameInputsAsPrev) => Dash = prev.sheet
\* C3 (amended): the same, except that cell A12 holds the time of the later run.
C3_RerunIdenticalButTimestamp ==
    /\ NoDuplicates
    /\ (Returned /\ Succeeded) =>
        /\ Cardinality(DashIdxs(sheets)) = 1
        /\ Len(Dash.pictures) = 1
        /\ CellValue(Dash, <<"A", 12>>) = FStr("Last updated: %Y-%m-%d %H:%M:%S", <<>>, <<now>>)
        /\ SameInputsAsPrev => MaskValue(Dash, <<"A", 12>>) = MaskValue(prev.sheet, <<"A", 12>>)
C3_Witness ==
    /\ Returned /\ Succeeded /\ SameInputsAsPrev
    /\ Len(hist) > 1
    /\ Dash # prev.sheet

\* C4: a run shows at most one alert, a returned run has shown exactly one, its
\* title fixed by the run's condition; and once a failure alert is shown no step
\* of the run writes a cell or creates a sheet.
ExpectedTitle ==
    IF ~NameResolves(names, sheets, "TICKER") THEN "Setup Required"
    ELSE IF ~TickerGiven THEN "Missing Ticker"
    ELSE IF fetched /\ hist = <<>> THEN "Invalid Ticker"
    ELSE "Success"
FailureShown == ShownTitles \cap {"Setup Required", "Missing Ticker", "Invalid Ticker"} # {}
C4_OneAlertPerRun ==
    /\ [](Len(alerts) <= 1 /\ (Returned => Len(alerts) = 1 /\ alerts[1].title = ExpectedTitle))
    /\ [][(FailureShown /\ InRun) =>
            \A i \in 1..Len(sheets') : \E j \in 1..Len(sheets) : sheets[j] = sheets'[i]]_vars
C4_Witness ==
    /\ Returned /\ ShownTitles = {"Invalid Ticker"}
    /\ TickerGiven /\ fetched

\* C5: once the metrics are computed, price_change is the last close minus the
\* first, price_change_pct is that change over the first close times 100, and
\* both are 0 for a series of one row.
C5_ChangeAndPercent ==
    AfterMetrics =>
        /\ price_change = hist[Len(hist)].Close - hist[1].Close
        /\ price_change_pct[2] # 0
        /\ price_change_pct[1] * hist[1].Close =
               (hist[Len(hist)].Close - hist[1].Close) * 100 * price_change_pct[2]
        /\ (Len(hist) = 1 => price_change = 0 /\ price_change_pct[1] = 0)
C5_Witness ==
    /\ Returned /\ Succeeded /\ Len(hist) > 1
    /\ price_change < 0
    /\ hist[Len(hist)].Close # hist[1].Close

\* C6: once the metrics are written, B8 is a High of some fetched row and no row
\* has a greater one, B9 is a Low of some fetched row and no row has a smaller one.
C6_WindowHighLow ==
    AfterMetrics =>
        LET b8 == CellValue(Dash, <<"B", 8>>)
            b9 == CellValue(Dash, <<"B", 9>>)
        IN  /\ b8.kind = "num" /\ b9.kind = "num"
            /\ \A i \in 1..Len(hist) : hist[i].High <= b8.nums[1] /\ b9.nums[1] <= hist[i].Low
            /\ \E i \in 1..Len(hist) : hist[i].High = b8.nums[1]
            /\ \E i \in 1..Len(hist) : hist[i].Low = b9.nums[1]
C6_Witness ==
    /\ Returned /\ Succeeded /\ Len(hist) > 1
    /\ hist[1].High > hist[Len(hist)].High
    /\ hist[1].Low > hist[Len(hist)].Low
    /\ CellValue(Dash, <<"B", 8>>) = Num(hist[1].High)

\* C7: once the metrics are written, the font colour of B7 is green exactly when
\* price_change >= 0 and red exactly when price_change < 0.
C7_ChangeColour ==
    AfterMetrics =>
        /\ <<<<"B", 7>>, "font.color">> \in DOMAIN Dash.formats
        /\ (Dash.formats[<<<<"B", 7>>, "font.color">>] = Green) <=> (price_change >= 0)
        /\ (Dash.formats[<<<<"B", 7>>, "font.color">>] = Red) <=> (price_change < 0)
C7_Witness ==
    /\ Returned /\ Succeeded /\ Len(hist) > 1
    /\ price_change = 0
    /\ Dash.formats[<<<<"B", 7>>, "font.color">>] = Green

\* C8: a run whose history has rows and whose stock.info raised stays on the
\* success path; when it returns it has shown the Success alert alone, B4 is the
\* upper-cased ticker, B5 is N/A, and the rest of the report and the alert are
\* those of a run on the same history whose stock.info gave a dict.
InfoCells == {<<"B", 4>>, <<"B", 5>>}
MaskInfo(sh) == [sh EXCEPT !.values = [a \in (DOMAIN sh.values) \ InfoCells |-> sh.values[a]]]
C8_InfoFailureTolerated ==
    (infoRaised /\ pc # "idle") =>
        /\ pc \in {"header", "metrics", "table", "chart", "timestamp", "success", "done"}
        /\ ~FailureShown
        /\ Returned =>
            /\ alerts = <<Alert("Success", SuccessBody(ticker, CurrentPrice(hist),
                            ChangeText(PriceChange(hist), PriceChangePct(PriceChange(hist), hist))))>>
            /\ CellValue(Dash, <<"B", 4>>) = Str(Upper(ticker.s))
            /\ CellValue(Dash, <<"B", 5>>) = Str("N/A")
            /\ \A d \in InfoDicts : MaskInfo(Dash) = MaskInfo(Report(ticker, hist, d, now))
C8_Witness ==
    /\ Returned /\ infoRaised /\ Succeeded
    /\ Len(hist) > 1
    /\ CellValue(Dash, <<"B", 5>>) = Str("N/A")

\* C9: right after the sheet is deleted and added again, the only sheet named
\* Stock Dashboard is an empty one, it is the second sheet, and it is active.
C9_CleanSlate ==
    pc = "fetch" =>
        /\ DashIdxs(sheets) = {2}
        /\ sheets[2] = EmptySheet(DashboardName)
        /\ sheets[1] = pre.sheets[CHOOSE i \in 1..Len(pre.sheets) :
                                    pre.sheets[i].name # DashboardName
                                    /\ \A j \in 1..(i - 1) : pre.sheets[j].name = DashboardName]
        /\ active = DashboardName
C9_Witness ==
    /\ pc = "fetch"
    /\ HasSheet(pre.sheets, DashboardName)
    /\ Sheet(pre.sheets, DashboardName) # EmptySheet(DashboardName)
    /\ Len(sheets) > 2

\* C10: as long as a run has not read a non-empty ticker, the workbook (sheets,
\* their contents, the active sheet, the names) is the one it was called with.
C10_ReadBeforeAnyChange ==
    (pc # "idle" /\ Falsy(ticker)) => Snapshot(sheets, active, names) = pre
C10_Witness ==
    /\ Returned /\ ShownTitles = {"Missing Ticker"}
    /\ prev.valid
    /\ HasSheet(sheets, DashboardName)
    /\ Dash = prev.sheet

====
